---- MODULE Spec2Model ----
(***************************************************************************)
(* Model of src/src/vcpkg-utils.ts (class Utils of run-vcpkg):             *)
(*   isExactKeyMatch, getVcpkgCommitId, computeCacheKeys, saveCache,       *)
(*   getAllCachedPaths.                                                    *)
(*                                                                         *)
(* A JavaScript string is a sequence of characters; a character is a       *)
(* one-element TLA+ string, except the two accented letters "a^" and "A^"  *)
(* (a with an acute accent, lower and upper case).  The JavaScript values  *)
(* undefined and null are the two sequences Undefined and Null, which are  *)
(* no strings of the alphabets used below.                                 *)
(*                                                                         *)
(* Each method has its own specification (SpecMatch, SpecKeys, SpecSave,   *)
(* SpecPaths): the environment and the arguments are drawn from bounded    *)
(* sets, and the actions run the method.  The variables of the other       *)
(* methods stay at their initial values.                                   *)
(***************************************************************************)
EXTENDS Integers, Sequences, FiniteSets, TLC

VARIABLES
    pc,                 \* position of the running method
    key, cacheKey,      \* isExactKeyMatch: arguments
    matchRet,           \* isExactKeyMatch: returned value
    env,                \* process.env: GITHUB_WORKSPACE, ImageOS, ImageVersion
    fsys,               \* file system seen by getVcpkgCommitId
    userProvidedCommitId, \* computeCacheKeys: argument
    commitId, isSubmodule, \* getVcpkgCommitId: returned pair
    keyset,             \* computeCacheKeys: returned KeySet
    keys, hitCacheKey, cachedPaths, \* saveCache: arguments
    storeCalls,         \* calls of cache.saveCache made so far: paths and key
    storeOutcome,       \* how the promise of cache.saveCache settled
    thrown,             \* the value in flight as an exception, or NoError
    result,             \* how the method ended: "none", "returned", "raised"
    log,                \* baseLib.info / baseLib.warning entries, in order
    rawPaths,           \* what runvcpkglib.getOrdinaryCachedPaths returns
    ps                  \* getAllCachedPaths: returned list

vars == <<pc, key, cacheKey, matchRet, env, fsys, userProvidedCommitId,
          commitId, isSubmodule, keyset, keys, hitCacheKey, cachedPaths,
          storeCalls, storeOutcome, thrown, result, log, rawPaths, ps>>

matchVars == <<key, cacheKey, matchRet>>
keysVars  == <<env, fsys, userProvidedCommitId, commitId, isSubmodule, keyset>>
saveVars  == <<keys, hitCacheKey, cachedPaths, storeCalls, storeOutcome>>
pathsVars == <<rawPaths, ps>>

----------------------------------------------------------------------------
(* Bounds *)

MaxKeyLen == 2       \* longest key given to isExactKeyMatch
MaxHeadLen == 3      \* longest content of the submodule HEAD file
MaxIdLen == 2        \* longest user provided commit id
MaxRawPaths == 3     \* longest list of raw paths
MaxPathLen == 2      \* longest raw path
MaxSavedPaths == 1   \* longest list of paths given to saveCache

----------------------------------------------------------------------------
(* JavaScript values *)

Undefined == <<"undefined">>
Null == <<"null">>

\* ToBoolean of a string | undefined | null
Truthy(s) == s # Undefined /\ s # Null /\ Len(s) > 0

\* all strings over the alphabet A of length 0..n
StrUpTo(A, n) == UNION {[1..k -> A] : k \in 0..n}

\* String.prototype.trim: strips leading and trailing white space
WhiteSpace == {" ", "\t", "\n"}

RECURSIVE TrimStart(_)
TrimStart(s) ==
    IF Len(s) > 0 /\ Head(s) \in WhiteSpace THEN TrimStart(Tail(s)) ELSE s

RECURSIVE TrimEnd(_)
TrimEnd(s) ==
    IF Len(s) > 0 /\ s[Len(s)] \in WhiteSpace
    THEN TrimEnd(SubSeq(s, 1, Len(s) - 1)) ELSE s

Trim(s) == TrimEnd(TrimStart(s))

\* String.prototype.includes
Includes(s, t) ==
    \E i \in 0..(Len(s) - Len(t)) : SubSeq(s, i + 1, i + Len(t)) = t

----------------------------------------------------------------------------
(* String.prototype.localeCompare with the option sensitivity.             *)
(* The collation compares the base letters of the two strings first, then  *)
(* (sensitivity "accent" or "variant") their accents, then (sensitivity    *)
(* "case" or "variant") their case.                                        *)

MatchAlphabet == {"a", "A", "a^", "A^", "b"}

BaseLetter(c) == IF c \in {"a", "A", "a^", "A^"} THEN 1 ELSE 2
Accent(c) == IF c \in {"a^", "A^"} THEN 1 ELSE 0
Case(c) == IF c \in {"A", "A^"} THEN 1 ELSE 0

\* lexicographic comparison of two sequences of weights: -1, 0 or 1
RECURSIVE CmpWeights(_, _)
CmpWeights(x, y) ==
    IF Len(x) = 0 /\ Len(y) = 0 THEN 0
    ELSE IF Len(x) = 0 THEN -1
    ELSE IF Len(y) = 0 THEN 1
    ELSE IF Head(x) < Head(y) THEN -1
    ELSE IF Head(x) > Head(y) THEN 1
    ELSE CmpWeights(Tail(x), Tail(y))

PrimaryWeights(s) == [i \in 1..Len(s) |-> BaseLetter(s[i])]
SecondaryWeights(s) == [i \in 1..Len(s) |-> Accent(s[i])]
TertiaryWeights(s) == [i \in 1..Len(s) |-> Case(s[i])]

LocaleCompare(this, that, sensitivity) ==
    LET p == CmpWeights(PrimaryWeights(this), PrimaryWeights(that))
        s == CmpWeights(SecondaryWeights(this), SecondaryWeights(that))
        t == CmpWeights(TertiaryWeights(this), TertiaryWeights(that))
    IN  IF p # 0 THEN p
        ELSE IF sensitivity \in {"accent", "variant"} /\ s # 0 THEN s
        ELSE IF sensitivity \in {"case", "variant"} /\ t # 0 THEN t
        ELSE 0

\* the bug: sensitivity "base" in place of "accent"
isExactKeyMatchBase(k, ck) ==
    IF Truthy(ck) THEN LocaleCompare(ck, k, "base") = 0 ELSE FALSE

\* Utils.isExactKeyMatch
isExactKeyMatch(k, ck) ==
    IF Truthy(ck) THEN LocaleCompare(ck, k, "accent") = 0 ELSE FALSE

----------------------------------------------------------------------------
(* Initial values of the variables a specification does not use *)

NoError == [none |-> TRUE, isError |-> FALSE, name |-> <<>>, message |-> <<>>,
            stack |-> Undefined]

NoKeySet == [primary |-> <<>>, restoreKeys |-> <<>>]

MatchIdle == key = <<>> /\ cacheKey = Undefined /\ matchRet = FALSE

KeysIdle ==
    /\ env = [GITHUB_WORKSPACE |-> Undefined, ImageOS |-> Undefined,
              ImageVersion |-> Undefined]
    /\ fsys = [submoduleHead |-> Undefined, dotGit |-> FALSE]
    /\ userProvidedCommitId = Null
    /\ commitId = Undefined /\ isSubmodule = "undefined"
    /\ keyset = NoKeySet

SaveIdle ==
    /\ keys = NoKeySet /\ hitCacheKey = Null /\ cachedPaths = <<>>
    /\ storeCalls = <<>> /\ storeOutcome = NoError

PathsIdle == rawPaths = <<>> /\ ps = <<>>

RunIdle == thrown = NoError /\ result = "none" /\ log = <<>>

----------------------------------------------------------------------------
(* isExactKeyMatch: the arguments are drawn by Init, the action calls it *)

InitMatch ==
    /\ pc = "isExactKeyMatch"
    /\ key \in StrUpTo(MatchAlphabet, MaxKeyLen)
    /\ cacheKey \in StrUpTo(MatchAlphabet, MaxKeyLen) \cup {Undefined}
    /\ matchRet = FALSE
    /\ KeysIdle /\ SaveIdle /\ PathsIdle /\ RunIdle

isExactKeyMatchCall ==
    /\ pc = "isExactKeyMatch"
    /\ matchRet' = isExactKeyMatch(key, cacheKey)
    /\ result' = "returned"
    /\ pc' = "done"
    /\ UNCHANGED <<key, cacheKey, keysVars, saveVars, pathsVars, thrown, log>>

NextMatch == isExactKeyMatchCall

SpecMatch == InitMatch /\ [][NextMatch]_vars

----------------------------------------------------------------------------
(* getVcpkgCommitId and computeCacheKeys.                                  *)
(* The file system is what the two fs.existsSync calls and the             *)
(* fs.readFileSync call see at the paths computed from GITHUB_WORKSPACE    *)
(* and vcpkgDirectory: fsys.submoduleHead is the content of                *)
(* <workspace>/.git/modules/<relPath>/HEAD, or Undefined when that file    *)
(* does not exist; fsys.dotGit tells whether <fullVcpkgPath>/.git exists.  *)
(* baseLib.debug tracing is not part of the log.                           *)

HeadAlphabet == {"a", "z", " ", "\n"}
IdAlphabet == {"a", "z"}

\* process.platform
Platform == <<"l", "i", "n", "u", "x">>

RunnerOSText == <<"r", "u", "n", "n", "e", "r", "O", "S", "=">>
GitCommitText == <<"-", "v", "c", "p", "k", "g", "G", "i", "t", "C", "o", "m",
                   "m", "i", "t", "=">>

EnvValues(A) == {Undefined, <<>>} \cup {<<c>> : c \in A}

\* outcomes of runvcpkglib.VcpkgRunner.getCommitId: the promise is fulfilled
\* with a string or rejected with an Error
GitQueryError == [none |-> FALSE, isError |-> TRUE, name |-> <<"Error">>,
                  message |-> <<"git failed">>, stack |-> <<"stack">>]

GitOutcomes ==
    {[ok |-> TRUE, value |-> v] : v \in {<<>>, <<"a">>, <<"z", "\n">>}}
        \cup {[ok |-> FALSE, value |-> <<>>]}

Info(text, arg) == [level |-> "info", text |-> text, arg |-> arg]
Warning(text, arg) == [level |-> "warning", text |-> text, arg |-> arg]

\* lines 96-97: the OS/image prefix of the key
FirstSegment(e) ==
    RunnerOSText
        \o (IF Truthy(e.ImageOS) THEN e.ImageOS ELSE Platform)
        \o (IF Truthy(e.ImageVersion) THEN e.ImageVersion ELSE <<>>)

\* baseutillib.createKeySet as called at line 119, with the one segment
\* pushed at line 117: that segment is the primary key and there is no
\* shorter key to restore from
createKeySet(cacheKeySegments) ==
    [primary |-> cacheKeySegments[1], restoreKeys |-> <<>>]

\* the bug: the user provided id is looked at first
KeyTextOverrideFirst(e, id, isSub, upc) ==
    IF Truthy(upc) THEN FirstSegment(e) \o GitCommitText \o upc
    ELSE IF Truthy(id) THEN FirstSegment(e) \o GitCommitText \o id
    ELSE FirstSegment(e)

\* lines 100-115: the text of the first segment
KeyText(e, id, isSub, upc) ==
    IF Truthy(id) THEN FirstSegment(e) \o GitCommitText \o id
    ELSE IF Truthy(upc) THEN FirstSegment(e) \o GitCommitText \o upc
    ELSE FirstSegment(e)

\* the bug: the warning about the disregarded id is forgotten
KeyLogNoWarning(id, isSub, upc) ==
    IF Truthy(id) THEN
        IF isSub = "true" THEN <<Info("Adding vcpkg submodule Git commit id", id)>>
        ELSE <<Info("vcpkg identified at Git commit id", id)>>
    ELSE IF Truthy(upc) THEN
        <<Info("Adding user provided vcpkg's Git commit id", upc)>>
    ELSE <<Info("No vcpkg's commit id was provided", <<>>)>>

\* lines 100-115: what is logged
KeyLog(id, isSub, upc) ==
    IF Truthy(id) THEN
        IF isSub = "true" THEN
            <<Info("Adding vcpkg submodule Git commit id", id)>>
                \o (IF Truthy(upc)
                    THEN <<Warning("The provided Git commit id is disregarded", upc)>>
                    ELSE <<>>)
        ELSE <<Info("vcpkg identified at Git commit id", id)>>
    ELSE IF Truthy(upc) THEN
        <<Info("Adding user provided vcpkg's Git commit id", upc)>>
    ELSE <<Info("No vcpkg's commit id was provided", <<>>)>>

\* line 57: id = id?.trim()
OptTrim(id) == IF id = Undefined THEN Undefined ELSE Trim(id)

\* lines 100-121 of computeCacheKeys, once getVcpkgCommitId returned [id, isSub]
computeCacheKeysReturn(id, isSub, upc) ==
    /\ commitId' = id
    /\ isSubmodule' = isSub
    /\ keyset' = createKeySet(<<KeyText(env, id, isSub, upc)>>)
    /\ log' = log \o KeyLog(id, isSub, upc)
    /\ thrown' = NoError
    /\ result' = "returned"
    /\ pc' = "done"

InitKeys ==
    /\ pc = "computeCacheKeys"
    /\ env \in [GITHUB_WORKSPACE : EnvValues({"/"}), ImageOS : EnvValues({"u"}),
                ImageVersion : EnvValues({"2"})]
    /\ fsys \in [submoduleHead : StrUpTo(HeadAlphabet, MaxHeadLen) \cup {Undefined},
                 dotGit : BOOLEAN]
    /\ userProvidedCommitId = Null
    /\ commitId = Undefined /\ isSubmodule = "undefined"
    /\ keyset = NoKeySet
    /\ MatchIdle /\ SaveIdle /\ PathsIdle /\ RunIdle

\* computeCacheKeys up to the return of getVcpkgCommitId (lines 92-99, 32-60)
\* or up to the await of line 54
computeCacheKeysCall(upc) ==
    /\ pc = "computeCacheKeys"
    /\ userProvidedCommitId' = upc
    /\ LET workspaceDir == IF env.GITHUB_WORKSPACE \in {Undefined, Null}
                           THEN <<>> ELSE env.GITHUB_WORKSPACE
       IN  IF Truthy(workspaceDir) THEN
               IF fsys.submoduleHead # Undefined THEN
                   computeCacheKeysReturn(OptTrim(fsys.submoduleHead), "true", upc)
               ELSE IF fsys.dotGit THEN
                   /\ pc' = "getCommitId"
                   /\ UNCHANGED <<commitId, isSubmodule, keyset, log, thrown, result>>
               ELSE computeCacheKeysReturn(OptTrim(Undefined), "undefined", upc)
           ELSE computeCacheKeysReturn(Undefined, "undefined", upc)
    /\ UNCHANGED <<env, fsys, matchVars, saveVars, pathsVars>>

\* the promise awaited at line 54 settles: fulfilled, lines 55-60 and 100-121
\* run; rejected, the rejection leaves getVcpkgCommitId and computeCacheKeys,
\* neither of which has a try block
getCommitIdSettles(o) ==
    /\ pc = "getCommitId"
    /\ IF o.ok THEN computeCacheKeysReturn(OptTrim(o.value), "false", userProvidedCommitId)
       ELSE /\ thrown' = GitQueryError
            /\ result' = "raised"
            /\ pc' = "done"
            /\ UNCHANGED <<commitId, isSubmodule, keyset, log>>
    /\ UNCHANGED <<env, fsys, userProvidedCommitId, matchVars, saveVars, pathsVars>>

NextKeys ==
    \/ /\ pc = "computeCacheKeys"
       /\ \E upc \in StrUpTo(IdAlphabet, MaxIdLen) \cup {Null} :
              computeCacheKeysCall(upc)
    \/ /\ pc = "getCommitId"
       /\ \E o \in GitOutcomes : getCommitIdSettles(o)

SpecKeys == InitKeys /\ [][NextKeys]_vars

----------------------------------------------------------------------------
(* saveCache *)

SaveAlphabet == {"a", "A", "a^", "b"}
SavedPaths == {<<"p">>}

\* Array.prototype.toString, as in `${pathsToCache}`: the entries joined by ","
RECURSIVE Join(_)
Join(paths) ==
    IF Len(paths) = 0 THEN <<>>
    ELSE IF Len(paths) = 1 THEN paths[1]
    ELSE paths[1] \o <<",">> \o Join(Tail(paths))

\* a KeySet as baseutillib builds it: the restore keys are shorter prefixes of
\* the primary key
KeySets ==
    {[primary |-> p,
      restoreKeys |-> IF Len(p) > 1 THEN <<SubSeq(p, 1, Len(p) - 1)>> ELSE <<>>] :
        p \in StrUpTo(SaveAlphabet, MaxKeyLen) \ {<<>>}}

ValidationErrorName == <<"ValidationError">>     \* cache.ValidationError.name
ReserveCacheErrorName == <<"ReserveCacheError">> \* cache.ReserveCacheError.name

\* what the promise of cache.saveCache can settle with: fulfilled (NoError), or
\* rejected with an Error of one of three names, or with a value that is no
\* Error object (instanceof Error is false), whatever its name property
SaveOutcomes ==
    {NoError,
     [none |-> FALSE, isError |-> TRUE, name |-> ValidationErrorName,
      message |-> <<"invalid key">>, stack |-> <<"stack">>],
     [none |-> FALSE, isError |-> TRUE, name |-> ReserveCacheErrorName,
      message |-> <<"already reserved">>, stack |-> <<"stack">>],
     [none |-> FALSE, isError |-> TRUE, name |-> <<"Error">>,
      message |-> <<"network">>, stack |-> Undefined],
     [none |-> FALSE, isError |-> FALSE, name |-> <<>>,
      message |-> <<>>, stack |-> Undefined],
     [none |-> FALSE, isError |-> FALSE, name |-> ReserveCacheErrorName,
      message |-> <<"plain object">>, stack |-> Undefined]}

\* the bug: any hit, also one on a restore key, skips the save
ShouldSkipAnyHit(k, hit) == Truthy(hit)

\* line 132
ShouldSkip(k, hit) == Truthy(hit) /\ isExactKeyMatch(k.primary, hit)

\* the bug: a reservation conflict is logged as a warning
InnerCatchWarnsConflict(error) ==
    IF error.none THEN [log |-> <<>>, thrown |-> NoError]
    ELSE IF error.isError THEN
        IF error.name = ValidationErrorName THEN [log |-> <<>>, thrown |-> error]
        ELSE [log |-> <<Warning("error.message", error.message)>>, thrown |-> NoError]
    ELSE [log |-> <<>>, thrown |-> NoError]

\* lines 139-153: the try block around cache.saveCache; what it logs and what
\* it throws on
InnerCatch(error) ==
    IF error.none THEN [log |-> <<>>, thrown |-> NoError]
    ELSE IF error.isError THEN
        IF error.name = ValidationErrorName THEN [log |-> <<>>, thrown |-> error]
        ELSE IF error.name = ReserveCacheErrorName
        THEN [log |-> <<Info("error.message", error.message)>>, thrown |-> NoError]
        ELSE [log |-> <<Warning("error.message", error.message)>>, thrown |-> NoError]
    ELSE [log |-> <<>>, thrown |-> NoError]

\* baseUtilLib.wrapOp, lines 129-155: runs the callback; what the callback
\* throws leaves wrapOp
wrapOp(err) == err

\* lines 156-165: the catch of the outer try block; it throws nothing
OuterCatch(err) ==
    IF err.none THEN [log |-> <<>>, thrown |-> NoError]
    ELSE [log |-> <<Warning("vcpkg-utils.saveCache() failed!", <<>>)>>
                  \o (IF err.isError
                      THEN <<Warning("err.name", err.name),
                             Warning("err.message", err.message)>>
                           \o (IF Truthy(err.stack)
                               THEN <<Warning("err.stack", err.stack)>> ELSE <<>>)
                      ELSE <<>>),
          thrown |-> NoError]

\* line 167 and the return, or the exception leaving saveCache
saveCacheEnds(err) ==
    /\ thrown' = err
    /\ result' = IF err.none THEN "returned" ELSE "raised"
    /\ pc' = "done"

InitSave ==
    /\ pc = "saveCache"
    /\ SaveIdle /\ MatchIdle /\ KeysIdle /\ PathsIdle /\ RunIdle

\* saveCache up to the await of line 141, or to its end when the save is skipped
saveCacheCall(k, hit, paths) ==
    /\ pc = "saveCache"
    /\ keys' = k /\ hitCacheKey' = hit /\ cachedPaths' = paths
    /\ IF ShouldSkip(k, hit) THEN
           /\ log' = log \o <<Info("Saving cache is skipped", k.primary)>>
           /\ saveCacheEnds(OuterCatch(wrapOp(NoError)).thrown)
           /\ UNCHANGED <<storeCalls, storeOutcome>>
       ELSE
           /\ log' = log \o <<Info("Saving a new cache entry", <<>>),
                              Info("Caching paths", Join(paths)),
                              Info("Saving cache with primary key", k.primary)>>
           /\ storeCalls' = Append(storeCalls, [paths |-> paths, key |-> k.primary])
           /\ pc' = "cache.saveCache"
           /\ UNCHANGED <<storeOutcome, thrown, result>>
    /\ UNCHANGED <<matchVars, keysVars, pathsVars>>

\* the bug: a failed save is tried again
cacheSaveCacheSettlesRetry(o) ==
    /\ pc = "cache.saveCache"
    /\ storeOutcome' = o
    /\ IF o.none \/ Len(storeCalls) > 1
       THEN /\ log' = log /\ saveCacheEnds(NoError) /\ UNCHANGED storeCalls
       ELSE /\ storeCalls' = Append(storeCalls, [paths |-> cachedPaths, key |-> keys.primary])
            /\ UNCHANGED <<pc, log, thrown, result>>
    /\ UNCHANGED <<keys, hitCacheKey, cachedPaths, matchVars, keysVars, pathsVars>>

\* the promise awaited at line 141 settles; lines 143-167 run
cacheSaveCacheSettles(o) ==
    /\ pc = "cache.saveCache"
    /\ storeOutcome' = o
    /\ LET inner == InnerCatch(o)
           outer == OuterCatch(wrapOp(inner.thrown))
       IN  /\ log' = log \o inner.log \o outer.log
           /\ saveCacheEnds(outer.thrown)
    /\ UNCHANGED <<keys, hitCacheKey, cachedPaths, storeCalls, matchVars,
                   keysVars, pathsVars>>

NextSave ==
    \/ /\ pc = "saveCache"
       /\ \E k \in KeySets,
             hit \in StrUpTo(SaveAlphabet, MaxKeyLen) \cup {Null},
             paths \in UNION {[1..n -> SavedPaths] : n \in 0..MaxSavedPaths} :
               saveCacheCall(k, hit, paths)
    \/ /\ pc = "cache.saveCache"
       /\ \E o \in SaveOutcomes : cacheSaveCacheSettles(o)

SpecSave == InitSave /\ [][NextSave]_vars

\* the runtime resumes saveCache once the promise of cache.saveCache settles
FairSpecSave == SpecSave /\ WF_vars(NextSave)

----------------------------------------------------------------------------
(* getAllCachedPaths *)

PathAlphabet == {"a", " "}

\* Array.prototype.map(s => s.trim())
MapTrim(paths) == [i \in 1..Len(paths) |-> Trim(paths[i])]

\* Array.prototype.filter(Boolean): the empty string is the only falsy string
NonEmpty(s) == Truthy(s)
FilterBoolean(paths) == SelectSeq(paths, NonEmpty)

\* the bug: of two equal entries the later one is kept
RECURSIVE SpreadSetKeepsLast(_)
SpreadSetKeepsLast(paths) ==
    IF Len(paths) = 0 THEN <<>>
    ELSE IF \E i \in 2..Len(paths) : paths[i] = Head(paths)
         THEN SpreadSetKeepsLast(Tail(paths))
         ELSE <<Head(paths)>> \o SpreadSetKeepsLast(Tail(paths))

\* [...new Set(paths)]: a Set keeps its values in insertion order, and adding
\* a value it already holds changes nothing
RECURSIVE SpreadSet(_)
SpreadSet(paths) ==
    IF Len(paths) = 0 THEN <<>>
    ELSE LET init == SpreadSet(SubSeq(paths, 1, Len(paths) - 1))
             last == paths[Len(paths)]
         IN  IF \E i \in 1..Len(init) : init[i] = last THEN init
             ELSE Append(init, last)

\* Utils.getAllCachedPaths, lines 175-181
getAllCachedPaths(raw) == SpreadSet(FilterBoolean(MapTrim(raw)))

InitPaths ==
    /\ pc = "getAllCachedPaths"
    /\ rawPaths \in UNION {[1..n -> StrUpTo(PathAlphabet, MaxPathLen)] :
                              n \in 0..MaxRawPaths}
    /\ ps = <<>>
    /\ MatchIdle /\ KeysIdle /\ SaveIdle /\ RunIdle

getAllCachedPathsCall ==
    /\ pc = "getAllCachedPaths"
    /\ ps' = getAllCachedPaths(rawPaths)
    /\ result' = "returned"
    /\ pc' = "done"
    /\ UNCHANGED <<rawPaths, matchVars, keysVars, saveVars, thrown, log>>

NextPaths == getAllCachedPathsCall

SpecPaths == InitPaths /\ [][NextPaths]_vars

----------------------------------------------------------------------------
(* Properties of saveCache *)

Attempted == pc = "done" /\ Len(storeCalls) > 0

ValidationClass(e) == ~e.none /\ e.isError /\ e.name = ValidationErrorName
ConflictClass(e) == ~e.none /\ e.isError /\ e.name = ReserveCacheErrorName

\* the entries logged after the save was started (three entries precede it)
LoggedAfterSave == SubSeq(log, 4, Len(log))

HasWarning(entries) == \E i \in 1..Len(entries) : entries[i].level = "warning"

\* C1: when a save is attempted and the store's save raises a validation-class
\* error, saveCache ends by raising that error, it does not return normally.
C1_ValidationPropagates ==
    (Attempted /\ ValidationClass(storeOutcome))
        => (result = "raised" /\ thrown = storeOutcome)

\* C2: the save is skipped (no call of the store's save) if and only if
\* hitCacheKey is present and isExactKeyMatch(keys.primary, hitCacheKey) holds;
\* in every other case the store's save is called with exactly the given
\* cachedPaths and with keys.primary as the key.
C2_SkipIffExactHit ==
    (pc \in {"cache.saveCache", "done"}) =>
        IF Truthy(hitCacheKey) /\ isExactKeyMatch(keys.primary, hitCacheKey)
        THEN storeCalls = <<>>
        ELSE storeCalls = <<[paths |-> cachedPaths, key |-> keys.primary]>>

\* a fallback restore key was hit, and the save was made all the same
C2_Witness ==
    /\ pc = "done"
    /\ Len(keys.restoreKeys) > 0 /\ hitCacheKey = keys.restoreKeys[1]
    /\ Len(cachedPaths) = 1
    /\ Len(storeCalls) = 1

\* C4: when a save is attempted and the store's save raises a
\* reservation-conflict-class error, saveCache returns normally, no warning is
\* logged and the one entry logged for the failure is informational.
C4_ConflictIsInformational ==
    (Attempted /\ ConflictClass(storeOutcome)) =>
        /\ result = "returned" /\ thrown = NoError
        /\ ~HasWarning(log)
        /\ LoggedAfterSave = <<Info("error.message", storeOutcome.message)>>

C4_Witness == Attempted /\ ConflictClass(storeOutcome) /\ result = "returned"

\* C5: when a save is attempted and the store's save fails with anything that
\* is neither a validation error nor a reservation conflict, be it an Error
\* object or not, saveCache logs a warning for the failure and returns normally.
C5_OtherFailureWarns ==
    (Attempted /\ ~storeOutcome.none /\ ~ValidationClass(storeOutcome)
               /\ ~ConflictClass(storeOutcome)) =>
        (result = "returned" /\ HasWarning(LoggedAfterSave))

\* C10: in one invocation of saveCache the store's save is called at most
\* once whatever its outcome, the step after the attempt is the end of the
\* invocation, and every invocation ends.
C10_AtMostOneSave ==
    /\ [](Len(storeCalls) <= 1)
    /\ [][pc = "cache.saveCache" => pc' = "done"]_vars
    /\ <>(pc = "done")

\* a save that failed with an error other than the two named ones, and was
\* not tried again
C10_Witness ==
    /\ Attempted /\ Len(storeCalls) = 1
    /\ storeOutcome.isError /\ storeOutcome.name = <<"Error">>

----------------------------------------------------------------------------
(* Properties of isExactKeyMatch *)

SameBaseLetters(x, y) ==
    Len(x) = Len(y) /\ \A i \in 1..Len(x) : BaseLetter(x[i]) = BaseLetter(y[i])

SameAccents(x, y) ==
    Len(x) = Len(y) /\ \A i \in 1..Len(x) : Accent(x[i]) = Accent(y[i])

\* C3 as claimed: two strings that differ only by case and/or accents match,
\* two strings that differ in a base letter do not, an absent cacheKey does not.
C3_AccentAndCaseInsensitive ==
    (pc = "done") =>
        /\ ~Truthy(cacheKey) => matchRet = FALSE
        /\ (Truthy(cacheKey) /\ key # cacheKey /\ SameBaseLetters(key, cacheKey))
               => matchRet = TRUE
        /\ (Truthy(cacheKey) /\ ~SameBaseLetters(key, cacheKey))
               => matchRet = FALSE

\* C3 amended: two strings that differ only by letter case match; two strings
\* that differ in a base letter or in an accent do not; an absent (undefined
\* or empty) cacheKey does not.
C3_CaseInsensitiveOnly ==
    (pc = "done") =>
        (matchRet <=> /\ Truthy(cacheKey)
                      /\ SameBaseLetters(key, cacheKey)
                      /\ SameAccents(key, cacheKey))

\* two keys with an accented letter that differ by case only, and match
C3_Witness ==
    /\ pc = "done" /\ matchRet = TRUE
    /\ key # cacheKey
    /\ \E i \in 1..Len(key) : Accent(key[i]) = 1

----------------------------------------------------------------------------
(* Properties of computeCacheKeys *)

SubmoduleDetected == pc = "done" /\ result = "returned" /\ isSubmodule = "true"

DisregardedWarning ==
    \E i \in 1..Len(log) :
        log[i] = Warning("The provided Git commit id is disregarded",
                         userProvidedCommitId)

\* the OS/image prefix: 'runnerOS=' + image OS or platform name + image version
Prefix ==
    RunnerOSText
        \o (IF env.ImageOS \in {Undefined, <<>>} THEN Platform ELSE env.ImageOS)
        \o (IF env.ImageVersion \in {Undefined, <<>>} THEN <<>> ELSE env.ImageVersion)

\* C6 as claimed: whenever the submodule HEAD file exists, whatever its
\* content, and an override is supplied, the primary key contains the commit
\* id read from that file, does not contain the override, and a warning about
\* the disregarded override is logged.
C6_SubmoduleBeatsOverrideAlways ==
    (SubmoduleDetected /\ Truthy(userProvidedCommitId)) =>
        /\ Includes(keyset.primary, Trim(fsys.submoduleHead))
        /\ ~Includes(keyset.primary, userProvidedCommitId)
        /\ DisregardedWarning

\* C6 amended: whenever the submodule HEAD file exists with a content that is
\* not blank, and an override is supplied, the primary key is the OS/image
\* prefix followed by '-vcpkgGitCommit=' and the trimmed content of that file,
\* the override contributes nothing to it, and a warning about the disregarded
\* override is logged.
C6_SubmoduleBeatsOverride ==
    (SubmoduleDetected /\ Truthy(userProvidedCommitId)
                       /\ Trim(fsys.submoduleHead) # <<>>) =>
        /\ keyset.primary = Prefix \o GitCommitText \o Trim(fsys.submoduleHead)
        /\ DisregardedWarning

\* a submodule whose HEAD file ends with a line break, an override that
\* differs from its commit id, and an ordinary .git entry besides
C6_Witness ==
    /\ SubmoduleDetected /\ Truthy(userProvidedCommitId)
    /\ fsys.submoduleHead = <<"a", "z", "\n">> /\ fsys.dotGit
    /\ userProvidedCommitId = <<"z">>

\* C7: the primary key is the prefix followed by '-vcpkgGitCommit=' and the
\* detected commit id if the resolver returned one; otherwise the prefix
\* followed by '-vcpkgGitCommit=' and the override if one is supplied;
\* otherwise exactly the prefix.
C7_CommitIdPrecedence ==
    (pc = "done" /\ result = "returned") =>
        keyset.primary =
            IF commitId \notin {Undefined, <<>>}
            THEN Prefix \o GitCommitText \o commitId
            ELSE IF userProvidedCommitId \notin {Null, <<>>}
            THEN Prefix \o GitCommitText \o userProvidedCommitId
            ELSE Prefix

\* an ordinary checkout whose commit id came back empty, an image version,
\* and an override that makes it into the key
C7_Witness ==
    /\ pc = "done" /\ result = "returned"
    /\ isSubmodule = "false" /\ commitId = <<>>
    /\ Truthy(env.ImageVersion)
    /\ userProvidedCommitId = <<"z", "a">>

\* C9: when the target is an ordinary checkout (a .git entry, no submodule
\* metadata) and the git query fails, no exception leaves computeCacheKeys:
\* it returns a KeySet.
C9_QueryFailureNeverEscapes ==
    (pc = "done" /\ Truthy(env.GITHUB_WORKSPACE)
                 /\ fsys.submoduleHead = Undefined /\ fsys.dotGit)
        => (result = "returned" /\ thrown = NoError)

----------------------------------------------------------------------------
(* Properties of getAllCachedPaths *)

Blank(s) == Trim(s) = <<>>

NoDuplicates(paths) ==
    \A i, j \in 1..Len(paths) : paths[i] = paths[j] => i = j

Elements(paths) == {paths[i] : i \in 1..Len(paths)}

\* index of the first entry of paths for which Trim gives v
FirstTrimmed(paths, v) ==
    CHOOSE i \in 1..Len(paths) :
        /\ Trim(paths[i]) = v
        /\ \A j \in 1..(i - 1) : Trim(paths[j]) # v

\* index of the first entry of paths equal to v
FirstEqual(paths, v) ==
    CHOOSE i \in 1..Len(paths) :
        paths[i] = v /\ \A j \in 1..(i - 1) : paths[j] # v

\* C8 as claimed: the returned list has no blank entry and no value twice,
\* holds every raw entry that is not blank, in the order of first occurrence
\* in the raw list.
C8_DedupedRawEntries ==
    (pc = "done") =>
        /\ \A i \in 1..Len(ps) : ~Blank(ps[i])
        /\ NoDuplicates(ps)
        /\ \A i \in 1..Len(rawPaths) :
               ~Blank(rawPaths[i]) => rawPaths[i] \in Elements(ps)
        /\ \A i, j \in 1..Len(ps) :
               (i < j /\ ps[i] \in Elements(rawPaths) /\ ps[j] \in Elements(rawPaths))
                   => FirstEqual(rawPaths, ps[i]) < FirstEqual(rawPaths, ps[j])

\* C8 amended: the returned list has no blank entry and no value twice, holds
\* the trimmed form of every raw entry that is not blank and nothing else, in
\* the order in which these trimmed forms first occur in the raw list.
C8_DedupedTrimmedEntries ==
    (pc = "done") =>
        /\ \A i \in 1..Len(ps) : ~Blank(ps[i])
        /\ NoDuplicates(ps)
        /\ Elements(ps) = {Trim(rawPaths[i]) : i \in 1..Len(rawPaths)} \ {<<>>}
        /\ \A i, j \in 1..Len(ps) :
               i < j => FirstTrimmed(rawPaths, ps[i]) < FirstTrimmed(rawPaths, ps[j])

\* a raw list with a blank entry and two entries that are equal once trimmed,
\* which leave one path
C8_Witness ==
    /\ pc = "done"
    /\ \E i \in 1..Len(rawPaths) : Blank(rawPaths[i])
    /\ \E i, j \in 1..Len(rawPaths) :
           /\ i < j /\ rawPaths[i] # rawPaths[j]
           /\ Trim(rawPaths[i]) = Trim(rawPaths[j]) /\ ~Blank(rawPaths[i])
    /\ Len(ps) = 1

====
